---- MODULE Spec2Model ----
(***************************************************************************)
(* Model of claude-quickstart.py: one invocation of main() reads a         *)
(* question, looks it up in the JSON answer cache, on a miss estimates the *)
(* cost, queries the model, archives the answer and updates the cost       *)
(* statistics.  The two JSON files are the only state that survives an     *)
(* invocation.                                                             *)
(*                                                                         *)
(* Numbers: Python ints are unbounded integers; a Python float is kept as  *)
(* an exact fraction num/den in lowest terms (den > 0), so that            *)
(* total / count is the same value wherever it is computed.                *)
(***************************************************************************)
EXTENDS Integers, Sequences, FiniteSets, TLC

\* ---------------------------------------------------------------- bounds
MaxInvocations == 2
MaxReprompts == 1
MaxFaults == 1

\* ------------------------------------------------------------ input sets
Procs == {1, 2}
Questions == {"q1", "q2"}
Answers == {"a1", "a2"}
OutputTokenCounts == {5, 8}
InputTokenCounts == {7}

\* ------------------------------------------------- constants of the code
CLAUDE_3_5_SONNET_PRICE_DOLLARS_INPUT_PER_MILLION_OF_TOKENS == 3
CLAUDE_3_5_SONNET_PRICE_DOLLARS_OUTPUT_PER_MILLION_OF_TOKENS == 15

K_TOTAL == "total_output_tokens_count"
K_COUNT == "output_tokens_sample_count"
K_AVERAGE == "output_tokens_average"
\* CostData.KEYS, in the order the dictionary is iterated
KEYS == <<K_TOTAL, K_COUNT, K_AVERAGE>>

HUM == "Hum ... did you mean to write something?"
REMEMBER == "I think I remember ..."
APOLOGY == "I'm sorry, I can't answer your question right now"

\* ------------------------------------------------------------ arithmetic
Abs(n) == IF n < 0 THEN -n ELSE n

RECURSIVE Gcd(_, _)
Gcd(a, b) == IF b = 0 THEN a ELSE Gcd(b, a % b)

\* ---------------------------------------------------------- Python values
\* every value is a record of the same shape; t is the Python type
PyInt(n) == [t |-> "int", num |-> n, den |-> 1, s |-> ""]
PyBool(b) == [t |-> "bool", num |-> IF b THEN 1 ELSE 0, den |-> 1, s |-> ""]
PyStr(str) == [t |-> "str", num |-> 0, den |-> 1, s |-> str]
PyNone == [t |-> "NoneType", num |-> 0, den |-> 1, s |-> ""]
\* the float num/den, den # 0
PyFloat(num, den) ==
    LET g == Gcd(Abs(num), Abs(den))
        sgn == IF den < 0 THEN -1 ELSE 1
    IN  [t |-> "float", num |-> sgn * (num \div g), den |-> sgn * (den \div g), s |-> ""]

\* x + y, over the least common denominator
FloatAdd(x, y) ==
    LET g == Gcd(x.den, y.den) IN
    PyFloat(x.num * (y.den \div g) + y.num * (x.den \div g), (x.den \div g) * y.den)

\* isinstance(x, int): bool is a subclass of int
IsInstanceInt(x) == x.t \in {"int", "bool"}
\* isinstance(x, float)
IsInstanceFloat(x) == x.t = "float"

EmptyDict == [k \in {} |-> PyNone]
\* d[k] = v
DictSet(d, k, v) == [x \in DOMAIN d \cup {k} |-> IF x = k THEN v ELSE d[x]]

\* the object json.load returns: a dict, a list (of strings) or a number
PyDict(d) == [kind |-> "dict", d |-> d, elems |-> {}]
PyList(elems) == [kind |-> "list", d |-> EmptyDict, elems |-> elems]
PyNumber == [kind |-> "int", d |-> EmptyDict, elems |-> {}]

\* ------------------------------------------------------------ JSON text
\* a JSON value as written in a file: j is the kind of literal
JInteger(n) == [j |-> "integer", num |-> n, den |-> 1, s |-> ""]
JReal(num, den) == [j |-> "real", num |-> num, den |-> den, s |-> ""]
JBoolean(b) == [j |-> "boolean", num |-> IF b THEN 1 ELSE 0, den |-> 1, s |-> ""]
JString(str) == [j |-> "string", num |-> 0, den |-> 1, s |-> str]
JNull == [j |-> "null", num |-> 0, den |-> 1, s |-> ""]

EmptyObject == [k \in {} |-> JNull]

\* the content of a file on disk
Absent == [kind |-> "absent", obj |-> EmptyObject, elems |-> {}]
\* text json.load rejects: an empty, truncated or otherwise malformed file
Malformed == [kind |-> "malformed", obj |-> EmptyObject, elems |-> {}]
ObjectFile(obj) == [kind |-> "object", obj |-> obj, elems |-> {}]
ArrayFile(elems) == [kind |-> "array", obj |-> EmptyObject, elems |-> elems]
NumberFile == [kind |-> "number", obj |-> EmptyObject, elems |-> {}]

\* json.load on one value: a literal without fraction is an int, with one a float
JsonToPy(v) ==
    CASE v.j = "integer" -> PyInt(v.num)
      [] v.j = "real" -> PyFloat(v.num, v.den)
      [] v.j = "boolean" -> PyBool(v.num = 1)
      [] v.j = "string" -> PyStr(v.s)
      [] OTHER -> PyNone

\* json.dump on one value: float.__repr__ always writes a fraction part
PyToJson(v) ==
    CASE v.t = "int" -> JInteger(v.num)
      [] v.t = "float" -> JReal(v.num, v.den)
      [] v.t = "bool" -> JBoolean(v.num = 1)
      [] v.t = "str" -> JString(v.s)
      [] OTHER -> JNull

\* json.load(file) of a well-formed file
JsonLoad(file) ==
    CASE file.kind = "object" -> PyDict([k \in DOMAIN file.obj |-> JsonToPy(file.obj[k])])
      [] file.kind = "array" -> PyList(file.elems)
      [] OTHER -> PyNumber

\* json.dump(d, file, indent=4) of a dict
JsonDump(d) == ObjectFile([k \in DOMAIN d |-> PyToJson(d[k])])

\* ------------------------------------------------------------ the cache
\* variant: the file is never read, every invocation starts from an empty dict
load_answer_question_pair_data_empty(file, oserror) == PyDict(EmptyDict)

\* load_answer_question_pair_data: oserror says whether opening or reading the
\* existing file fails with OSError
load_answer_question_pair_data(file, oserror) ==
    IF file.kind = "absent" THEN PyDict(EmptyDict)
    ELSE IF oserror \/ file.kind = "malformed" THEN PyDict(EmptyDict)
    ELSE JsonLoad(file)

\* variant: the new pair is not stored
archive_answer_question_pair_unchanged(question, answer, answer_question_pairs) ==
    answer_question_pairs

\* variant: the new pair replaces the dict instead of joining it
archive_answer_question_pair_alone(question, answer, answer_question_pairs) ==
    PyDict([q \in {question} |-> PyStr(answer)])

\* archive_answer_question_pair on a dict: answer_question_pairs[question] = answer
archive_answer_question_pair(question, answer, answer_question_pairs) ==
    PyDict(DictSet(answer_question_pairs.d, question, PyStr(answer)))

\* ------------------------------------------------------------- CostData
KeyHasExpectedType(key, v) ==
    IF key = K_AVERAGE THEN IsInstanceFloat(v) ELSE IsInstanceInt(v)

\* CostData._validate from the i-th key on: "True", "False", or the exception
\* the loop raises
RECURSIVE ValidateFrom(_, _)
ValidateFrom(data, i) ==
    IF i > Len(KEYS) THEN "True"
    ELSE LET key == KEYS[i] IN
         CASE data.kind = "dict" ->
                  IF key \notin DOMAIN data.d THEN "False"
                  ELSE IF ~KeyHasExpectedType(key, data.d[key]) THEN "False"
                  ELSE ValidateFrom(data, i + 1)
           \* key not in a list is a membership test; data[key] on a list raises
           [] data.kind = "list" ->
                  IF key \notin data.elems THEN "False" ELSE "TypeError"
           \* key not in a number raises
           [] OTHER -> "TypeError"

CostData_validate(data) == ValidateFrom(data, 1)

\* CostData._load: the dict it returns, or the exception that escapes it
CostData_load(file, oserror) ==
    IF file.kind = "absent" THEN [raised |-> "", data |-> EmptyDict]
    ELSE IF oserror \/ file.kind = "malformed" THEN [raised |-> "", data |-> EmptyDict]
    ELSE LET data == JsonLoad(file)
             valid == CostData_validate(data)
         IN  CASE valid = "True" -> [raised |-> "", data |-> data.d]
               [] valid = "False" -> [raised |-> "", data |-> EmptyDict]
               [] OTHER -> [raised |-> valid, data |-> EmptyDict]

\* variant: the average is taken over the sample count before the increment
update_output_tokens_stale(data, output_tokens_count) ==
    IF DOMAIN data = {} THEN
        [raised |-> "",
         data |-> [k \in {K_TOTAL, K_COUNT, K_AVERAGE} |->
                      CASE k = K_TOTAL -> PyInt(output_tokens_count)
                        [] k = K_COUNT -> PyInt(1)
                        [] OTHER -> PyInt(output_tokens_count)]]
    ELSE LET total == data[K_TOTAL].num + output_tokens_count
             count == data[K_COUNT].num
             summed == [data EXCEPT ![K_TOTAL] = PyInt(total), ![K_COUNT] = PyInt(count + 1)]
         IN  IF count = 0
             THEN [raised |-> "ZeroDivisionError", data |-> summed]
             ELSE [raised |-> "",
                   data |-> [summed EXCEPT ![K_AVERAGE] = PyFloat(total, count)]]

\* CostData.update_output_tokens: self.data afterwards, and the exception it
\* raises if the new sample count is zero
update_output_tokens(data, output_tokens_count) ==
    IF DOMAIN data = {} THEN
        [raised |-> "",
         data |-> [k \in {K_TOTAL, K_COUNT, K_AVERAGE} |->
                      CASE k = K_TOTAL -> PyInt(output_tokens_count)
                        [] k = K_COUNT -> PyInt(1)
                        [] OTHER -> PyInt(output_tokens_count)]]
    ELSE LET total == data[K_TOTAL].num + output_tokens_count
             count == data[K_COUNT].num + 1
             summed == [data EXCEPT ![K_TOTAL] = PyInt(total), ![K_COUNT] = PyInt(count)]
         IN  IF count = 0
             THEN [raised |-> "ZeroDivisionError", data |-> summed]
             ELSE [raised |-> "",
                   data |-> [summed EXCEPT ![K_AVERAGE] = PyFloat(total, count)]]

\* ------------------------------------------------------------ the costs
get_anthropic_input_tokens_cost(input_tokens_count) ==
    PyFloat(input_tokens_count * CLAUDE_3_5_SONNET_PRICE_DOLLARS_INPUT_PER_MILLION_OF_TOKENS,
            1000000)

get_anthropic_output_tokens_cost(output_tokens_count) ==
    PyFloat(output_tokens_count.num * CLAUDE_3_5_SONNET_PRICE_DOLLARS_OUTPUT_PER_MILLION_OF_TOKENS,
            output_tokens_count.den * 1000000)

\* cost_data_manager.data.get("output_tokens_average")
DictGetAverage(data) == IF K_AVERAGE \in DOMAIN data THEN data[K_AVERAGE] ELSE PyNone

\* what log_anthropic_cost returns: None when count_tokens raised
estimated_total_cost(output_tokens_average, counted, input_tokens) ==
    IF ~counted THEN PyNone
    ELSE LET input_cost == get_anthropic_input_tokens_cost(input_tokens)
             average == IF output_tokens_average = PyNone
                        THEN PyInt(input_tokens) ELSE output_tokens_average
             output_cost == get_anthropic_output_tokens_cost(average)
         IN  FloatAdd(input_cost, output_cost)

\* ================================================================ state
VARIABLES
    cacheFile,              \* content of answer_question_pair_data.json
    costFile,               \* content of cost_data.json
    pc,                     \* where each invocation of main() stands
    question,               \* main: question
    answer_question_pairs,  \* main: answer_question_pairs
    cost_data,              \* cost_data_manager.data
    response,               \* main: success, response, output_tokens_count
    stdout,                 \* the lines printed so far
    calls,                  \* the remote calls issued so far, in order
    estimate,               \* what log_anthropic_cost returned
    raised,                 \* the exception that ended the invocation
    io,                     \* outcome of each file operation and of the lookup
    faults,                 \* environment: OSErrors raised so far
    reprompts,              \* environment: empty inputs typed so far
    started,                \* history: number of invocations started
    pre,                    \* history: both files when the invocation started
    prev,                   \* history: the last invocation, if it generated and exited normally
    run,                    \* history: the successful generations since the start
    overlapped              \* history: the invocation ran while another was running

vars == <<cacheFile, costFile, pc, question, answer_question_pairs, cost_data,
          response, stdout, calls, estimate, raised, io, faults, reprompts,
          started, pre, prev, run, overlapped>>

files == <<cacheFile, costFile>>
history == <<started, pre, prev, run, overlapped>>

NoResponse == [success |-> FALSE, text |-> "", tokens |-> 0]
NoIo == [costRead |-> "none", cacheRead |-> "none", found |-> "none",
         cacheSave |-> "none", costSave |-> "none", updated |-> FALSE]
NoRaise == [exc |-> "", at |-> ""]
NoFiles == [cache |-> Absent, cost |-> Absent]
NoPrev == [success |-> FALSE, saved |-> FALSE, q |-> "", a |-> ""]

\* an invocation that has not exited and may still touch the files
Running(p) == pc[p] \notin {"idle", "done", "crashed"}

\* whether the next file operation may fail with OSError
OsErrors == IF faults < MaxFaults THEN BOOLEAN ELSE {FALSE}
\* exists() is false for an absent file: nothing is opened
ReadErrors(file) == IF file.kind = "absent" THEN {FALSE} ELSE OsErrors
Fault(oserror) == faults' = faults + (IF oserror THEN 1 ELSE 0)

\* ------------------------------------------------- files found at start
Avg5 == JReal(5, 1)
CostObject(total, count, average) ==
    ObjectFile([k \in {K_TOTAL, K_COUNT, K_AVERAGE} |->
                   CASE k = K_TOTAL -> total [] k = K_COUNT -> count [] OTHER -> average])
ValidCostFile == CostObject(JInteger(10), JInteger(2), Avg5)
OneAnswerFile == ObjectFile([k \in {"q1"} |-> JString("a1")])

InitialCostFiles ==
    { Absent, Malformed, NumberFile, ArrayFile({}), ArrayFile({K_TOTAL}),
      ValidCostFile,
      CostObject(JInteger(10), JInteger(3), JReal(3, 2)),
      CostObject(JInteger(5), JInteger(1), JInteger(5)),
      CostObject(JString("10"), JInteger(2), Avg5),
      CostObject(JInteger(10), JInteger(-1), Avg5),
      CostObject(JInteger(10), JBoolean(TRUE), Avg5),
      ObjectFile([k \in {K_TOTAL, K_COUNT} |-> JInteger(10)]) }

InitialCacheFiles ==
    { Absent, Malformed, NumberFile, ArrayFile({"q1"}),
      ObjectFile(EmptyObject), OneAnswerFile,
      ObjectFile([k \in {"q1", "q2"} |-> JString("a2")]) }

\* the pairs of files the first invocation may find: any cache file with no
\* cost file yet, or any cost file beside a cache of one answer
InitialFiles ==
    (InitialCacheFiles \X {Absent}) \cup ({OneAnswerFile} \X InitialCostFiles)

InitWith(found, faulted) ==
    /\ \E f \in found : cacheFile = f[1] /\ costFile = f[2]
    /\ pc = [p \in Procs |-> "idle"]
    /\ question = [p \in Procs |-> ""]
    /\ answer_question_pairs = [p \in Procs |-> PyDict(EmptyDict)]
    /\ cost_data = [p \in Procs |-> EmptyDict]
    /\ response = [p \in Procs |-> NoResponse]
    /\ stdout = [p \in Procs |-> <<>>]
    /\ calls = [p \in Procs |-> <<>>]
    /\ estimate = [p \in Procs |-> PyNone]
    /\ raised = [p \in Procs |-> NoRaise]
    /\ io = [p \in Procs |-> NoIo]
    /\ faults = faulted
    /\ reprompts = 0
    /\ started = 0
    /\ pre = [p \in Procs |-> NoFiles]
    /\ prev = NoPrev
    /\ run = [n |-> 0, sum |-> 0, clean |-> costFile.kind = "absent"]
    /\ overlapped = [p \in Procs |-> FALSE]

Init == InitWith(InitialFiles, 0)

\* ============================================================== actions
\* the process starts: python claude-quickstart.py
Start(p) ==
    /\ pc[p] = "idle"
    /\ started < MaxInvocations
    /\ pc' = [pc EXCEPT ![p] = "cost_data"]
    /\ started' = started + 1
    /\ pre' = [pre EXCEPT ![p] = [cache |-> cacheFile, cost |-> costFile]]
    /\ overlapped' = [o \in Procs |->
                        IF o = p THEN \E r \in Procs \ {p} : Running(r)
                        ELSE overlapped[o] \/ Running(o)]
    /\ UNCHANGED <<files, question, answer_question_pairs, cost_data, response, stdout,
                   calls, estimate, raised, io, faults, reprompts, prev, run>>

\* main, line 274: cost_data_manager = CostData(COST_DATA_JSON_PATH, logger)
CostDataInit(p) ==
    /\ pc[p] = "cost_data"
    /\ \E oserror \in ReadErrors(costFile) :
          LET loaded == CostData_load(costFile, oserror) IN
          /\ Fault(oserror)
          /\ io' = [io EXCEPT ![p].costRead = IF oserror THEN "oserror" ELSE "ok"]
          /\ IF loaded.raised = ""
             THEN /\ cost_data' = [cost_data EXCEPT ![p] = loaded.data]
                  /\ pc' = [pc EXCEPT ![p] = "input"]
                  /\ UNCHANGED raised
             ELSE /\ raised' = [raised EXCEPT ![p] =
                                   [exc |-> loaded.raised, at |-> "CostData._load"]]
                  /\ pc' = [pc EXCEPT ![p] = "crashed"]
                  /\ UNCHANGED cost_data
    /\ UNCHANGED <<files, question, answer_question_pairs, response, stdout, calls,
                   estimate, reprompts, history>>

\* main, lines 276-282: the stripped input is empty, the prompt is repeated
InputEmpty(p) ==
    /\ pc[p] = "input"
    /\ reprompts < MaxReprompts
    /\ reprompts' = reprompts + 1
    /\ stdout' = [stdout EXCEPT ![p] = Append(@, HUM)]
    /\ UNCHANGED <<files, pc, question, answer_question_pairs, cost_data, response,
                   calls, estimate, raised, io, faults, history>>

\* main, lines 276-283: a question is read
InputQuestion(p) ==
    /\ pc[p] = "input"
    /\ \E q \in Questions : question' = [question EXCEPT ![p] = q]
    /\ pc' = [pc EXCEPT ![p] = "load_pairs"]
    /\ UNCHANGED <<files, answer_question_pairs, cost_data, response, stdout, calls,
                   estimate, raised, io, faults, reprompts, history>>

\* main, line 285: answer_question_pairs = load_answer_question_pair_data()
LoadPairs(p) ==
    /\ pc[p] = "load_pairs"
    /\ \E oserror \in ReadErrors(cacheFile) :
          /\ Fault(oserror)
          /\ answer_question_pairs' = [answer_question_pairs EXCEPT ![p] =
                                          load_answer_question_pair_data(cacheFile, oserror)]
          /\ io' = [io EXCEPT ![p].cacheRead = IF oserror THEN "oserror" ELSE "ok"]
    /\ pc' = [pc EXCEPT ![p] = "lookup"]
    /\ UNCHANGED <<files, question, cost_data, response, stdout, calls, estimate,
                   raised, reprompts, history>>

\* question in answer_question_pairs: "True", "False" or the exception
Contains(pairs, q) ==
    CASE pairs.kind = "dict" -> IF q \in DOMAIN pairs.d THEN "True" ELSE "False"
      [] pairs.kind = "list" -> IF q \in pairs.elems THEN "True" ELSE "False"
      [] OTHER -> "TypeError"

\* main, lines 288-294: the cache lookup
Lookup(p) ==
    /\ pc[p] = "lookup"
    /\ LET pairs == answer_question_pairs[p]
           found == Contains(pairs, question[p])
       IN  CASE found = "True" /\ pairs.kind = "dict" ->
                    /\ stdout' = [stdout EXCEPT ![p] =
                                     @ \o <<REMEMBER, pairs.d[question[p]].s>>]
                    /\ pc' = [pc EXCEPT ![p] = "done"]
                    /\ UNCHANGED raised
             \* a list is indexed by the question: TypeError after the first print
             [] found = "True" /\ pairs.kind # "dict" ->
                    /\ stdout' = [stdout EXCEPT ![p] = Append(@, REMEMBER)]
                    /\ raised' = [raised EXCEPT ![p] = [exc |-> "TypeError", at |-> "main"]]
                    /\ pc' = [pc EXCEPT ![p] = "crashed"]
             [] found = "False" ->
                    /\ pc' = [pc EXCEPT ![p] = "estimate"]
                    /\ UNCHANGED <<stdout, raised>>
             [] OTHER ->
                    /\ raised' = [raised EXCEPT ![p] = [exc |-> "TypeError", at |-> "main"]]
                    /\ pc' = [pc EXCEPT ![p] = "crashed"]
                    /\ UNCHANGED stdout
    /\ io' = [io EXCEPT ![p].found = Contains(answer_question_pairs[p], question[p])]
    /\ UNCHANGED <<files, question, answer_question_pairs, cost_data, response, calls,
                   estimate, faults, reprompts, history>>

\* variant: the exception of count_tokens is not caught and ends the invocation
LogAnthropicCost_uncaught(p) ==
    /\ pc[p] = "estimate"
    /\ \E counted \in BOOLEAN, input_tokens \in InputTokenCounts :
          /\ calls' = [calls EXCEPT ![p] = Append(@,
                          [api |-> "count_tokens", question |-> question[p], ok |-> counted])]
          /\ estimate' = [estimate EXCEPT ![p] =
                             estimated_total_cost(DictGetAverage(cost_data[p]),
                                                  counted, input_tokens)]
          /\ IF counted
             THEN pc' = [pc EXCEPT ![p] = "ask"] /\ UNCHANGED raised
             ELSE /\ pc' = [pc EXCEPT ![p] = "crashed"]
                  /\ raised' = [raised EXCEPT ![p] =
                                   [exc |-> "APIError", at |-> "log_anthropic_cost"]]
    /\ UNCHANGED <<files, question, answer_question_pairs, cost_data, response, stdout,
                   io, faults, reprompts, history>>

\* main, lines 295-297: log_anthropic_cost(question, data.get("output_tokens_average"))
LogAnthropicCost(p) ==
    /\ pc[p] = "estimate"
    /\ \E counted \in BOOLEAN, input_tokens \in InputTokenCounts :
          /\ calls' = [calls EXCEPT ![p] = Append(@,
                          [api |-> "count_tokens", question |-> question[p], ok |-> counted])]
          /\ estimate' = [estimate EXCEPT ![p] =
                             estimated_total_cost(DictGetAverage(cost_data[p]),
                                                  counted, input_tokens)]
    /\ pc' = [pc EXCEPT ![p] = "ask"]
    /\ UNCHANGED <<files, question, answer_question_pairs, cost_data, response, stdout,
                   raised, io, faults, reprompts, history>>

\* variant: after the apology the failed response is archived and saved as well
AskAnthropic_archiving(p) ==
    /\ pc[p] = "ask"
    /\ \/ \E text \in Answers, output_tokens \in OutputTokenCounts :
             /\ calls' = [calls EXCEPT ![p] = Append(@,
                             [api |-> "messages.create", question |-> question[p], ok |-> TRUE])]
             /\ response' = [response EXCEPT ![p] =
                                [success |-> TRUE, text |-> text, tokens |-> output_tokens]]
             /\ stdout' = [stdout EXCEPT ![p] = Append(@, text)]
       \/ /\ calls' = [calls EXCEPT ![p] = Append(@,
                          [api |-> "messages.create", question |-> question[p], ok |-> FALSE])]
          /\ response' = [response EXCEPT ![p] = NoResponse]
          /\ stdout' = [stdout EXCEPT ![p] = Append(@, APOLOGY)]
    /\ pc' = [pc EXCEPT ![p] = "archive"]
    /\ UNCHANGED <<files, question, answer_question_pairs, cost_data, estimate, raised,
                   io, faults, reprompts, history>>

\* main, lines 299-302 and 312-313: ask_anthropic(question) and the print
AskAnthropic(p) ==
    /\ pc[p] = "ask"
    /\ \/ \E text \in Answers, output_tokens \in OutputTokenCounts :
             /\ calls' = [calls EXCEPT ![p] = Append(@,
                             [api |-> "messages.create", question |-> question[p], ok |-> TRUE])]
             /\ response' = [response EXCEPT ![p] =
                                [success |-> TRUE, text |-> text, tokens |-> output_tokens]]
             /\ stdout' = [stdout EXCEPT ![p] = Append(@, text)]
             /\ pc' = [pc EXCEPT ![p] = "archive"]
       \/ /\ calls' = [calls EXCEPT ![p] = Append(@,
                          [api |-> "messages.create", question |-> question[p], ok |-> FALSE])]
          /\ response' = [response EXCEPT ![p] = NoResponse]
          /\ stdout' = [stdout EXCEPT ![p] = Append(@, APOLOGY)]
          /\ pc' = [pc EXCEPT ![p] = "done"]
    /\ UNCHANGED <<files, question, answer_question_pairs, cost_data, estimate, raised,
                   io, faults, reprompts, history>>

\* main, line 304: archive_answer_question_pair(question, response, answer_question_pairs)
Archive(p) ==
    /\ pc[p] = "archive"
    /\ IF answer_question_pairs[p].kind = "dict"
       THEN /\ answer_question_pairs' = [answer_question_pairs EXCEPT ![p] =
                   archive_answer_question_pair(question[p], response[p].text, @)]
            /\ pc' = [pc EXCEPT ![p] = "save_pairs_open"]
            /\ UNCHANGED raised
       \* a list does not take a string index
       ELSE /\ raised' = [raised EXCEPT ![p] =
                             [exc |-> "TypeError", at |-> "archive_answer_question_pair"]]
            /\ pc' = [pc EXCEPT ![p] = "crashed"]
            /\ UNCHANGED answer_question_pairs
    /\ UNCHANGED <<files, question, cost_data, response, stdout, calls, estimate, io,
                   faults, reprompts, history>>

\* variant: the old file is removed before the open is attempted
OpenForWriting_truncating(file, oserror) == Malformed

\* path.open("w"): the file is created or truncated, unless the open fails
OpenForWriting(file, oserror) == IF oserror THEN file ELSE Malformed

\* json.dump into the opened file: a failed write leaves part of the text
WriteJson(d, oserror) == IF oserror THEN Malformed ELSE JsonDump(d)

\* save_answer_question_pair_data, line 74: the file is opened for writing
SavePairsOpen(p) ==
    /\ pc[p] = "save_pairs_open"
    /\ \E oserror \in OsErrors :
          /\ Fault(oserror)
          /\ cacheFile' = OpenForWriting(cacheFile, oserror)
          /\ IF oserror
             THEN /\ io' = [io EXCEPT ![p].cacheSave = "False:open"]
                  /\ pc' = [pc EXCEPT ![p] = "update"]
             ELSE /\ pc' = [pc EXCEPT ![p] = "save_pairs_write"]
                  /\ UNCHANGED io
    /\ UNCHANGED <<costFile, question, answer_question_pairs, cost_data, response,
                   stdout, calls, estimate, raised, reprompts, history>>

\* save_answer_question_pair_data, lines 75-84: the dump and the return value
SavePairsWrite(p) ==
    /\ pc[p] = "save_pairs_write"
    /\ \E oserror \in OsErrors :
          /\ Fault(oserror)
          /\ cacheFile' = WriteJson(answer_question_pairs[p].d, oserror)
          /\ io' = [io EXCEPT ![p].cacheSave = IF oserror THEN "False:write" ELSE "True"]
    /\ pc' = [pc EXCEPT ![p] = "update"]
    /\ UNCHANGED <<costFile, question, answer_question_pairs, cost_data, response,
                   stdout, calls, estimate, raised, reprompts, history>>

\* main, lines 309-310: cost_data_manager.update_output_tokens(output_tokens_count)
UpdateOutputTokens(p) ==
    /\ pc[p] = "update"
    /\ LET updated == update_output_tokens(cost_data[p], response[p].tokens) IN
          /\ cost_data' = [cost_data EXCEPT ![p] = updated.data]
          /\ IF updated.raised = ""
             THEN /\ io' = [io EXCEPT ![p].updated = TRUE]
                  /\ pc' = [pc EXCEPT ![p] = "cost_save_open"]
                  /\ UNCHANGED raised
             ELSE /\ raised' = [raised EXCEPT ![p] =
                                   [exc |-> updated.raised, at |-> "update_output_tokens"]]
                  /\ pc' = [pc EXCEPT ![p] = "crashed"]
                  /\ UNCHANGED io
    /\ UNCHANGED <<files, question, answer_question_pairs, response, stdout, calls,
                   estimate, faults, reprompts, history>>

\* CostData.save, line 143: the file is opened for writing
CostSaveOpen(p) ==
    /\ pc[p] = "cost_save_open"
    /\ \E oserror \in OsErrors :
          /\ Fault(oserror)
          /\ costFile' = OpenForWriting(costFile, oserror)
          /\ IF oserror
             THEN /\ io' = [io EXCEPT ![p].costSave = "False:open"]
                  /\ pc' = [pc EXCEPT ![p] = "done"]
             ELSE /\ pc' = [pc EXCEPT ![p] = "cost_save_write"]
                  /\ UNCHANGED io
    /\ UNCHANGED <<cacheFile, question, answer_question_pairs, cost_data, response,
                   stdout, calls, estimate, raised, reprompts, history>>

\* CostData.save, lines 144-149: the dump and the return value
CostSaveWrite(p) ==
    /\ pc[p] = "cost_save_write"
    /\ \E oserror \in OsErrors :
          /\ Fault(oserror)
          /\ costFile' = WriteJson(cost_data[p], oserror)
          /\ io' = [io EXCEPT ![p].costSave = IF oserror THEN "False:write" ELSE "True"]
    /\ pc' = [pc EXCEPT ![p] = "done"]
    /\ UNCHANGED <<cacheFile, question, answer_question_pairs, cost_data, response,
                   stdout, calls, estimate, raised, reprompts, history>>

\* every file operation of the invocation succeeded
AllIoOk(p) ==
    /\ io[p].costRead \in {"ok"} \/ pre[p].cost.kind = "absent"
    /\ io[p].cacheRead \in {"ok"} \/ pre[p].cache.kind = "absent"
    /\ io[p].cacheSave = "True"
    /\ io[p].costSave = "True"

\* the process exits, normally or with a traceback: its memory is gone
Finish(p) ==
    /\ pc[p] \in {"done", "crashed"}
    /\ pc' = [pc EXCEPT ![p] = "idle"]
    /\ question' = [question EXCEPT ![p] = ""]
    /\ answer_question_pairs' = [answer_question_pairs EXCEPT ![p] = PyDict(EmptyDict)]
    /\ cost_data' = [cost_data EXCEPT ![p] = EmptyDict]
    /\ response' = [response EXCEPT ![p] = NoResponse]
    /\ stdout' = [stdout EXCEPT ![p] = <<>>]
    /\ calls' = [calls EXCEPT ![p] = <<>>]
    /\ estimate' = [estimate EXCEPT ![p] = PyNone]
    /\ raised' = [raised EXCEPT ![p] = NoRaise]
    /\ io' = [io EXCEPT ![p] = NoIo]
    /\ pre' = [pre EXCEPT ![p] = NoFiles]
    /\ overlapped' = [overlapped EXCEPT ![p] = FALSE]
    /\ prev' = IF pc[p] = "done" /\ response[p].success
               THEN [success |-> TRUE, saved |-> io[p].cacheSave = "True",
                     q |-> question[p], a |-> response[p].text]
               ELSE NoPrev
    /\ run' = IF run.clean /\ pc[p] = "done" /\ response[p].success /\ AllIoOk(p)
              THEN [n |-> run.n + 1, sum |-> run.sum + response[p].tokens, clean |-> TRUE]
              ELSE [n |-> 0, sum |-> 0, clean |-> FALSE]
    /\ UNCHANGED <<files, faults, reprompts, started>>

Step(p) ==
    \/ CostDataInit(p)
    \/ InputEmpty(p)
    \/ InputQuestion(p)
    \/ LoadPairs(p)
    \/ Lookup(p)
    \/ LogAnthropicCost(p)
    \/ AskAnthropic(p)
    \/ Archive(p)
    \/ SavePairsOpen(p)
    \/ SavePairsWrite(p)
    \/ UpdateOutputTokens(p)
    \/ CostSaveOpen(p)
    \/ CostSaveWrite(p)
    \/ Finish(p)

\* one invocation at a time: the program as it is meant to be used
Next == Start(1) \/ Step(1)

Spec == Init /\ [][Next]_vars

\* two invocations that may overlap, against the same two files, on a disk
\* that raises no OSError
RaceFiles == {Absent, OneAnswerFile} \X {ValidCostFile}

InitRace == InitWith(RaceFiles, MaxFaults)

\* one invocation for each of the two processes
StartRace(p) == started < Cardinality(Procs) /\ Start(p)

NextRace == \E p \in Procs : StartRace(p) \/ Step(p)

SpecRace == InitRace /\ [][NextRace]_vars

\* =============================================================== claims
Exited(p) == pc[p] \in {"done", "crashed"}
Last(seq) == seq[Len(seq)]
CostKeys == {K_TOTAL, K_COUNT, K_AVERAGE}
SaveFailed == {"False:open", "False:write"}

\* the invocation asked the model and the model failed
GenerationFailed(p) == Len(calls[p]) = 2 /\ ~calls[p][2].ok

\* ---- C1
\* C1 (as stated): once an invocation's generation call has succeeded for a
\* question, the next invocation with the same question issues no remote call
\* and prints the answer.
C1_RepeatedQuestionIsServedFromCache ==
    \A p \in Procs :
        (prev.success /\ question[p] = prev.q)
            => /\ calls[p] = <<>>
               /\ pc[p] = "done" => Last(stdout[p]) = prev.a

\* C1 (amended): after an invocation whose generation call succeeded and whose
\* cache save returned true, the next invocation with the same question that
\* reads the cache file without an OSError issues no remote call, does not
\* crash, and prints the saved answer.
C1_SavedQuestionIsServedFromCache ==
    \A p \in Procs :
        (prev.success /\ prev.saved /\ question[p] = prev.q /\ io[p].cacheRead = "ok")
            => /\ calls[p] = <<>>
               /\ pc[p] \in {"lookup", "done"}
               /\ pc[p] = "done" =>
                     /\ Len(stdout[p]) >= 2
                     /\ SubSeq(stdout[p], Len(stdout[p]) - 1, Len(stdout[p]))
                            = <<REMEMBER, prev.a>>

C1_Witness ==
    /\ pc[1] = "done"
    /\ prev.success /\ prev.saved /\ question[1] = prev.q
    /\ io[1].cacheRead = "ok"
    /\ calls[1] = <<>>
    /\ Last(stdout[1]) = prev.a

\* ---- C2
\* C2: from an absent cost file, after n >= 1 invocations that each generate
\* successfully (with no file error), the cost file holds total = t1+...+tn,
\* samples = n and average = total / n.
C2_CostFileAccumulates ==
    ((\A p \in Procs : pc[p] = "idle") /\ run.clean /\ run.n >= 1)
        => /\ costFile.kind = "object"
           /\ DOMAIN costFile.obj = CostKeys
           /\ costFile.obj[K_TOTAL] = JInteger(run.sum)
           /\ costFile.obj[K_COUNT] = JInteger(run.n)
           /\ costFile.obj[K_AVERAGE].num * run.n = run.sum * costFile.obj[K_AVERAGE].den

\* ---- C3
\* C3: when the generation call fails, the apology is printed and both files
\* are what they were when the invocation started; nothing was saved.
C3_FailedGenerationChangesNothing ==
    \A p \in Procs :
        (pc[p] = "done" /\ GenerationFailed(p))
            => /\ Last(stdout[p]) = APOLOGY
               /\ cacheFile = pre[p].cache
               /\ costFile = pre[p].cost
               /\ io[p].cacheSave = "none" /\ io[p].costSave = "none"
               /\ ~io[p].updated

C3_Witness ==
    /\ pc[1] = "done" /\ GenerationFailed(1)
    /\ pre[1].cache = OneAnswerFile /\ cacheFile = OneAnswerFile
    /\ pre[1].cost = ValidCostFile /\ costFile = ValidCostFile
    /\ Last(stdout[1]) = APOLOGY

\* ---- C4
\* C4: from an empty cache and an absent cost file, one successful invocation
\* (no file error) leaves the cache file {q: a} and the cost file with total t
\* (integer), count 1 (integer) and average t written as a float.
C4_FirstRunFiles ==
    \A p \in Procs :
        (/\ pc[p] = "done" /\ response[p].success
         /\ pre[p].cache \in {Absent, ObjectFile(EmptyObject)}
         /\ pre[p].cost = Absent
         /\ io[p].cacheSave = "True" /\ io[p].costSave = "True")
            => /\ cacheFile = ObjectFile([q \in {question[p]} |-> JString(response[p].text)])
               /\ costFile = CostObject(JInteger(response[p].tokens), JInteger(1),
                                        JReal(response[p].tokens, 1))

\* ---- C5
\* C5: the cost tracker's load never raises, whatever the cost file holds.
C5_CostLoadNeverRaises ==
    \A p \in Procs : ~(pc[p] = "crashed" /\ raised[p].at = "CostData._load")

\* ---- C6
\* a pair of the cache file the invocation found is still in the file
Kept(p, q) ==
    /\ cacheFile.kind = "object"
    /\ q \in DOMAIN cacheFile.obj
    /\ cacheFile.obj[q] = pre[p].cache.obj[q]

\* C6 (as stated): every pair in the cache file before an invocation is in it,
\* with the same answer, after the invocation.
C6_CacheOnlyGrows ==
    \A p \in Procs :
        (Exited(p) /\ pre[p].cache.kind = "object")
            => \A q \in DOMAIN pre[p].cache.obj : Kept(p, q)

\* C6 (amended): every pair in the cache file before an invocation is in it,
\* with the same answer, after the invocation, unless the invocation's read of
\* the cache file raised an OSError or its save failed while writing.
C6_CacheOnlyGrowsWithoutIoError ==
    \A p \in Procs :
        (/\ Exited(p) /\ pre[p].cache.kind = "object"
         /\ io[p].cacheRead # "oserror" /\ io[p].cacheSave # "False:write")
            => \A q \in DOMAIN pre[p].cache.obj : Kept(p, q)

C6_Witness ==
    /\ pc[1] = "done" /\ response[1].success /\ io[1].cacheSave = "True"
    /\ pre[1].cache = OneAnswerFile
    /\ Kept(1, "q1")
    /\ DOMAIN cacheFile.obj = {"q1", "q2"}

\* ---- C7
\* C7 (as stated): a save that fails leaves the file with its prior content.
C7_FailedSaveLeavesFile ==
    \A p \in Procs :
        /\ io[p].cacheSave \in SaveFailed => cacheFile = pre[p].cache
        /\ io[p].costSave \in SaveFailed => costFile = pre[p].cost

\* C7 (amended): a save that fails returns false; the file keeps its prior
\* content when the open failed, and is left truncated or partly written when
\* the write failed after the open.
C7_FailedOpenLeavesFile ==
    \A p \in Procs :
        /\ io[p].cacheSave = "False:open" => cacheFile = pre[p].cache
        /\ io[p].costSave = "False:open" => costFile = pre[p].cost
        /\ io[p].cacheSave = "False:write" => cacheFile = Malformed
        /\ io[p].costSave = "False:write" => costFile = Malformed

C7_Witness ==
    /\ io[1].cacheSave = "False:open"
    /\ pre[1].cache = OneAnswerFile
    /\ cacheFile = OneAnswerFile
    /\ pc[1] = "done"

\* ---- C8
CountTokensThenCreate(p) ==
    /\ Len(calls[p]) = 2
    /\ calls[p][1].api = "count_tokens"
    /\ calls[p][2].api = "messages.create"
    /\ calls[p][2].question = question[p]

\* what a successful invocation persists, from what it read and was answered
PersistedCache(p) ==
    JsonDump(archive_answer_question_pair(question[p], response[p].text,
                 load_answer_question_pair_data(pre[p].cache, FALSE)).d)
PersistedCost(p) ==
    JsonDump(update_output_tokens(CostData_load(pre[p].cost, FALSE).data,
                                  response[p].tokens).data)

\* C8: on a cache miss the estimation is attempted once, then the generation
\* call is issued once, whether or not the estimation succeeded; what is then
\* persisted does not depend on the estimation.
C8_EstimationNeverBlocksGeneration ==
    \A p \in Procs :
        io[p].found = "False" =>
            /\ pc[p] = "estimate" => calls[p] = <<>>
            /\ pc[p] = "ask" => Len(calls[p]) = 1 /\ calls[p][1].api = "count_tokens"
            /\ pc[p] \notin {"estimate", "ask"} => CountTokensThenCreate(p)
            /\ (/\ pc[p] = "done" /\ response[p].success
                /\ io[p].costRead = "ok" /\ io[p].cacheRead = "ok"
                /\ io[p].cacheSave = "True" /\ io[p].costSave = "True")
                  => cacheFile = PersistedCache(p) /\ costFile = PersistedCost(p)

C8_Witness ==
    /\ pc[1] = "done"
    /\ io[1].found = "False"
    /\ CountTokensThenCreate(1)
    /\ ~calls[1][1].ok /\ calls[1][2].ok
    /\ estimate[1] = PyNone
    /\ io[1].cacheSave = "True" /\ io[1].costSave = "True"
    /\ cacheFile = PersistedCache(1)

\* ---- C9
\* the tracker object exists
TrackerBuilt(p) ==
    /\ pc[p] \notin {"idle", "cost_data"}
    /\ ~(pc[p] = "crashed" /\ raised[p].at = "CostData._load")

Populated(d) == CostKeys \subseteq DOMAIN d
\* average == total / count
AverageIsMean(d) == d[K_AVERAGE].num * d[K_COUNT].num = d[K_TOTAL].num * d[K_AVERAGE].den

\* C9 (as stated): the tracker's record is empty, or has its three fields with
\* average == total / count whenever count > 0.
C9_RecordAlwaysConsistent ==
    \A p \in Procs :
        TrackerBuilt(p) =>
            \/ cost_data[p] = EmptyDict
            \/ /\ Populated(cost_data[p])
               /\ cost_data[p][K_COUNT].num > 0 => AverageIsMean(cost_data[p])

\* C9 (amended): the tracker's record is empty or has its three fields; as
\* loaded, the fields have the declared types but the average need not be
\* total / count; after every update that returns, average == total / count.
C9_RecordConsistentAfterUpdate ==
    \A p \in Procs :
        TrackerBuilt(p) =>
            /\ cost_data[p] = EmptyDict \/ Populated(cost_data[p])
            /\ (cost_data[p] # EmptyDict /\ ~io[p].updated) =>
                  /\ IsInstanceInt(cost_data[p][K_TOTAL])
                  /\ IsInstanceInt(cost_data[p][K_COUNT])
                  /\ IsInstanceFloat(cost_data[p][K_AVERAGE])
            /\ io[p].updated =>
                  /\ Populated(cost_data[p])
                  /\ cost_data[p][K_COUNT].num # 0
                  /\ AverageIsMean(cost_data[p])

C9_Witness ==
    /\ io[1].updated
    /\ pre[1].cost = CostObject(JInteger(10), JInteger(3), JReal(3, 2))
    /\ cost_data[1][K_COUNT] = PyInt(4)
    /\ AverageIsMean(cost_data[1])

\* ---- C10
BothSaved ==
    \A p \in Procs :
        /\ pc[p] = "done" /\ response[p].success
        /\ io[p].cacheSave = "True" /\ io[p].costSave = "True"

HasPair(p) ==
    /\ cacheFile.kind = "object"
    /\ question[p] \in DOMAIN cacheFile.obj
    /\ cacheFile.obj[question[p]] = JString(response[p].text)

LostPair == question[1] # question[2] /\ \E p \in Procs : ~HasPair(p)
LostSample ==
    costFile.kind = "object"
        /\ costFile.obj[K_COUNT].num # ValidCostFile.obj[K_COUNT].num + Cardinality(Procs)

\* C10: two invocations that both generate and save successfully leave a cache
\* file without one of their pairs, or a cost file without one of their
\* samples, only if they overlapped.
C10_LostUpdateOnlyWhenOverlapping ==
    (BothSaved /\ (LostPair \/ LostSample)) => \A p \in Procs : overlapped[p]

\* the interleaving C10 speaks of: both succeeded, a pair and a sample are lost
C10_Witness ==
    /\ BothSaved
    /\ LostPair
    /\ LostSample
    /\ overlapped[1] /\ overlapped[2]

====
